---- MODULE Spec2Model ----
(***************************************************************************)
(* A model of PDF Merger Pro (ErikKopcha/pdf-merger): the CLI run          *)
(* (cli/app.py), the workflow (core/orchestrator.py), file discovery       *)
(* (core/scanner.py), the merge loop (core/merger.py) and the naming       *)
(* helpers (utils/file_utils.py, utils/console.py).                        *)
(*                                                                         *)
(* Strings are sequences of one-character strings, compared by code point  *)
(* as Python compares str values.  The PDF library, the filesystem and the *)
(* clock are the environment: where a library or system call can raise,    *)
(* the model lets it raise.                                                *)
(***************************************************************************)
EXTENDS Integers, Sequences, FiniteSets, TLC

\* ------------------------------------------------------------------------
\* Bounds of the model.
\* ------------------------------------------------------------------------

\* Entries of the source tree considered by the full run (Spec).
MaxFiles == 5
\* Length of the free part of a user-supplied or folder name (SpecNames).
MaxBody == 2
\* Number of PDF files in a folder of the preview runs (SpecPreview).
MaxListed == 12
\* Entries of the source tree considered by the discovery runs (SpecScan).
MaxEntries == 6
\* Length of the strings sanitize_filename is called on (SpecSanitize).
MaxText == 3

\* ------------------------------------------------------------------------
\* Characters and strings.
\* ------------------------------------------------------------------------

LowerLetters ==
  <<"a","b","c","d","e","f","g","h","i","j","k","l","m",
    "n","o","p","q","r","s","t","u","v","w","x","y","z">>

UpperLetters ==
  <<"A","B","C","D","E","F","G","H","I","J","K","L","M",
    "N","O","P","Q","R","S","T","U","V","W","X","Y","Z">>

Digits == <<"0","1","2","3","4","5","6","7","8","9">>

Range(s) == {s[i] : i \in DOMAIN s}

\* Code points of the characters the model uses (ASCII).
OrdTable ==
  [c \in Range(LowerLetters) |-> 96 + (CHOOSE i \in DOMAIN LowerLetters : LowerLetters[i] = c)]
  @@ [c \in Range(UpperLetters) |-> 64 + (CHOOSE i \in DOMAIN UpperLetters : UpperLetters[i] = c)]
  @@ [c \in Range(Digits) |-> 47 + (CHOOSE i \in DOMAIN Digits : Digits[i] = c)]
  @@ (" " :> 32) @@ ("\"" :> 34) @@ ("*" :> 42) @@ ("." :> 46) @@ ("/" :> 47)
  @@ (":" :> 58) @@ ("<" :> 60) @@ (">" :> 62) @@ ("?" :> 63) @@ ("\\" :> 92)
  @@ ("_" :> 95) @@ ("|" :> 124)

Ord(c) == OrdTable[c]

\* str.lower() on one ASCII character.
LowerChar(c) ==
  IF Ord(c) \in 65..90 THEN LowerLetters[Ord(c) - 64] ELSE c

\* str.lower()
Lower(s) == [i \in 1..Len(s) |-> LowerChar(s[i])]

\* str.endswith(suffix)
EndsWith(s, suffix) ==
  /\ Len(s) >= Len(suffix)
  /\ SubSeq(s, Len(s) - Len(suffix) + 1, Len(s)) = suffix

\* Python's str ordering: lexicographic by code point, a proper prefix first.
StrLess(a, b) ==
  \E k \in 1..(Len(b)) :
    /\ \A i \in 1..(k - 1) : i <= Len(a) /\ a[i] = b[i]
    /\ \/ k = Len(a) + 1
       \/ k <= Len(a) /\ Ord(a[k]) < Ord(b[k])

StrLeq(a, b) == a = b \/ StrLess(a, b)

\* config/constants.py
PDF_EXTENSION == <<".", "p", "d", "f">>
MAX_PREVIEW_FILES == 10

\* ------------------------------------------------------------------------
\* utils/file_utils.py
\* ------------------------------------------------------------------------

\* The character class [<>:"/\\|?*] of sanitize_filename.
IllegalChars == {"<", ">", ":", "\"", "/", "\\", "|", "?", "*"}

\* re.sub(r'[<>:"/\\|?*]', "_", filename)
ReplaceIllegal(s) ==
  [i \in 1..Len(s) |-> IF s[i] \in IllegalChars THEN "_" ELSE s[i]]

\* re.sub(r"_+", "_", s): every maximal run of underscores becomes one.
RECURSIVE CollapseUnderscores(_)
CollapseUnderscores(s) ==
  IF Len(s) <= 1 THEN s
  ELSE IF s[1] = "_" /\ s[2] = "_" THEN CollapseUnderscores(Tail(s))
  ELSE <<s[1]>> \o CollapseUnderscores(Tail(s))

\* str.strip(chars): drop the leading and trailing characters in chars.
Strip(s, chars) ==
  LET keep == {i \in 1..Len(s) : s[i] \notin chars}
  IN  IF keep = {} THEN <<>>
      ELSE LET lo == CHOOSE i \in keep : \A j \in keep : i <= j
               hi == CHOOSE i \in keep : \A j \in keep : i >= j
           IN  SubSeq(s, lo, hi)

\* sanitize_filename with the strip done first, before the substitutions.
sanitize_filename_strip_first(name) ==
  CollapseUnderscores(ReplaceIllegal(Strip(name, {"_", " "})))

sanitize_filename(name) ==
  Strip(CollapseUnderscores(ReplaceIllegal(name)), {"_", " "})

\* ensure_pdf_extension with the comparison made on the name as typed.
ensure_pdf_extension_case_sensitive(name) ==
  IF ~EndsWith(name, PDF_EXTENSION) THEN name \o PDF_EXTENSION ELSE name

ensure_pdf_extension(name) ==
  IF ~EndsWith(Lower(name), PDF_EXTENSION) THEN name \o PDF_EXTENSION ELSE name

\* pathlib's PurePath.stem: the name without its last suffix; a name whose
\* only dot is its first character, or that ends with a dot, has no suffix.
PathStem(name) ==
  LET dots == {i \in 1..Len(name) : name[i] = "."}
  IN  IF dots = {} THEN name
      ELSE LET j == CHOOSE i \in dots : \A k \in dots : i >= k
           IN  IF 1 < j /\ j < Len(name) THEN SubSeq(name, 1, j - 1) ELSE name

\* An integer as a zero-padded decimal of the given width (strftime's %Y, %m, ...).
RECURSIVE Pad(_, _)
Pad(n, width) ==
  IF width = 0 THEN <<>> ELSE Pad(n \div 10, width - 1) \o <<Digits[(n % 10) + 1]>>

\* datetime.strftime(constants.TIMESTAMP_PATTERN), "%Y%m%d_%H%M%S".
Strftime(t) ==
  Pad(t.year, 4) \o Pad(t.month, 2) \o Pad(t.day, 2) \o <<"_">>
  \o Pad(t.hour, 2) \o Pad(t.minute, 2) \o Pad(t.second, 2)

\* ensure_unique_output without the existence check.
ensure_unique_output_unchecked(name, exists, now) == name

\* ensure_unique_output with the timestamp put after the whole name.
ensure_unique_output_after_name(name, exists, now) ==
  IF ~exists THEN name
  ELSE name \o <<"_">> \o Strftime(now) \o PDF_EXTENSION

\* ensure_unique_output on a path of directory dir; exists is the result of
\* path.exists() and now the value of datetime.now().
ensure_unique_output(name, exists, now) ==
  IF ~exists THEN name
  ELSE PathStem(name) \o <<"_">> \o Strftime(now) \o PDF_EXTENSION

\* limit_preview: the loop over enumerate(files), idx counting from 0, that
\* stops at the first idx >= limit.
RECURSIVE PreviewLoop(_, _, _, _)
PreviewLoop(files, limit, idx, preview) ==
  IF idx >= Len(files) THEN preview
  ELSE IF idx >= limit THEN preview
  ELSE PreviewLoop(files, limit, idx + 1, Append(preview, files[idx + 1].name))

\* limit_preview with the loop stopped one turn late (idx > limit).
limit_preview_one_more(files, limit) == PreviewLoop(files, limit + 1, 0, <<>>)

limit_preview(files, limit) == PreviewLoop(files, limit, 0, <<>>)

\* ------------------------------------------------------------------------
\* utils/console.py
\* ------------------------------------------------------------------------

\* ConsoleMessenger.print_files: the numbered lines, then the "... and K more
\* files" line (more = <<K>>) when total > preview_limit.
print_files(items, preview_limit, total) ==
  [ lines |-> [i \in 1..Len(items) |-> <<i, items[i]>>],
    more  |-> IF total > preview_limit THEN <<total - preview_limit>> ELSE <<>> ]

\* ------------------------------------------------------------------------
\* core/scanner.py
\* ------------------------------------------------------------------------

\* A directory entry below the source folder: sub is the chain of
\* sub-directories leading to it (<<>> for a direct child), name its file
\* name, kind "file" or "dir", id the file it names (0 is kept for the
\* document the run writes), pages the number of pages stored in it.

\* fnmatch of a name against "*.pdf" (POSIX: case-sensitive).
MatchesPdfPattern(name) == EndsWith(name, PDF_EXTENSION)

\* Path.glob with the pattern "*.pdf" whatever the recursive flag says.
GlobDirectChildrenOnly(tree, recursive) ==
  SelectSeq(tree, LAMBDA e : MatchesPdfPattern(e.name) /\ e.sub = <<>>)

\* Path.glob(pattern) with pattern "**/*.pdf" (recursive) or "*.pdf": the
\* matching entries, in the order the directory listing yields them.
Glob(tree, recursive) ==
  SelectSeq(tree, LAMBDA e : /\ MatchesPdfPattern(e.name)
                             /\ (recursive \/ e.sub = <<>>))

\* The sort key without .lower().
SortKeyAsTyped(path) == path.name

\* key=lambda path: path.name.lower()
SortKey(path) == Lower(path.name)

\* sorted(..., key=...): a stable sort; e goes after every element whose key
\* is not greater than its own.
RECURSIVE InsertSorted(_, _)
InsertSorted(sorted, e) ==
  IF sorted = <<>> THEN <<e>>
  ELSE IF StrLess(SortKey(e), SortKey(sorted[1])) THEN <<e>> \o sorted
  ELSE <<sorted[1]>> \o InsertSorted(Tail(sorted), e)

RECURSIVE Sorted(_)
Sorted(s) ==
  IF s = <<>> THEN <<>>
  ELSE InsertSorted(Sorted(SubSeq(s, 1, Len(s) - 1)), s[Len(s)])

\* path.is_file()
IsFile(path) == path.kind = "file"

\* PdfScanner.scan over the source folder (glob of a path that is no
\* directory yields nothing).
scan(recursive, fsv) ==
  IF fsv.src # "dir" THEN <<>>
  ELSE SelectSeq(Sorted(Glob(fsv.tree, recursive)), IsFile)
\* ------------------------------------------------------------------------
\* State of one CLI run.
\* ------------------------------------------------------------------------

VARIABLES
  settings,      \* MergeSettings: folder_name, recursive, output_name, destination
  fs,            \* the filesystem: src, tree (listing of the source folder), dst,
                 \* dstFiles (names in the destination), out (the document written)
  fs0,           \* the filesystem as the run found it
  pdf_lib,       \* TRUE when pypdf or PyPDF2 was imported (PDF_IMPORT_ERROR is None)
  pc,            \* the position of the run
  pdf_files,     \* execute: the discovered files
  destination,   \* execute: "src" or "dst" once resolved, "" before
  raw_name,      \* execute: the resolved file name (raw_output_path.name)
  output_name,   \* execute: output_path.name
  console,       \* what was printed: the preview and the per-file errors
  files,         \* merge: list(pdf_files)
  pdf_writer,    \* merge: the pages added to the PdfWriter, in order
  total_pages,   \* merge: the running total
  index,         \* merge: the position of the loop in files (from 1)
  handle,        \* merge: the ids of the input files that are open
  page_no,       \* merge: pages of the current file added so far
  attempted,     \* the files the loop has tried to open, in order
  failed,        \* the files whose processing raised, in order
  out_open,      \* merge: the output file is open for writing
  raised,        \* the exception travelling to PdfMergerApp.run, "none" when none
  outcome,       \* what execute returned: <<>> for None, <<MergeOutcome>> otherwise
  exit_code,     \* what run returned, -1 while it runs
  filename,      \* a call of sanitize_filename on its own: the argument
  sanitized,     \* ... its result
  resanitized    \* ... and the result of sanitizing that result

execVars == <<pdf_files, destination, raw_name, output_name>>
mergeVars == <<files, pdf_writer, total_pages, index, handle, page_no, attempted,
               failed, out_open>>
callVars == <<filename, sanitized, resanitized>>
vars == <<settings, fs, fs0, pdf_lib, pc, pdf_files, destination, raw_name,
          output_name, console, files, pdf_writer, total_pages, index, handle,
          page_no, attempted, failed, out_open, raised, outcome, exit_code,
          filename, sanitized, resanitized>>

\* Optional values: None is <<>>, a value v is <<v>>.
None == <<>>
Some(v) == <<v>>

\* Python's truth value of an Optional[str]: neither None nor empty.
Truthy(opt) == opt # None /\ opt[1] # <<>>

\* The state at the start of PdfMergerApp.run's try block.
InitRun(s, f, lib) ==
  /\ settings = s
  /\ fs = f
  /\ fs0 = f
  /\ pdf_lib = lib
  /\ pc = "validate"
  /\ pdf_files = <<>>
  /\ destination = ""
  /\ raw_name = <<>>
  /\ output_name = <<>>
  /\ console = [preview |-> None, errors |-> <<>>, exists_warning |-> FALSE]
  /\ files = <<>>
  /\ pdf_writer = <<>>
  /\ total_pages = 0
  /\ index = 0
  /\ handle = {}
  /\ page_no = 0
  /\ attempted = <<>>
  /\ failed = <<>>
  /\ out_open = FALSE
  /\ raised = "none"
  /\ outcome = None
  /\ exit_code = -1
  /\ filename = <<>>
  /\ sanitized = <<>>
  /\ resanitized = <<>>

\* An exception leaves execute for the handlers of run.
Raise(exc) ==
  /\ raised' = exc
  /\ pc' = "handler"

\* ------------------------------------------------------------------------
\* core/orchestrator.py
\* ------------------------------------------------------------------------

\* The opening checks of execute without the is_dir check.
ValidateFolderExistsOnly(kind) ==
  IF kind = "missing" THEN "FileNotFoundError" ELSE "none"

\* The two checks that open execute: the exception raised, "none" when the
\* folder is a directory.
ValidateFolder(kind) ==
  IF kind = "missing" THEN "FileNotFoundError"
  ELSE IF kind # "dir" THEN "NotADirectoryError"
  ELSE "none"

Validate ==
  /\ pc = "validate"
  /\ IF ValidateFolder(fs.src) # "none"
       THEN Raise(ValidateFolder(fs.src))
       ELSE pc' = "scan" /\ raised' = raised
  /\ UNCHANGED <<callVars, settings, fs, fs0, pdf_lib, execVars, console, mergeVars,
                 outcome, exit_code>>

\* execute without its early return on an empty scan.
AfterScanNoEarlyReturn(found) == "resolve_destination"

\* `if not pdf_files: ... return None`: where execute goes after the scan.
AfterScan(found) == IF found = <<>> THEN "return" ELSE "resolve_destination"

Scan ==
  /\ pc = "scan"
  /\ pdf_files' = scan(settings.recursive, fs)
  /\ pc' = AfterScan(pdf_files')
  /\ UNCHANGED <<callVars, settings, fs, fs0, pdf_lib, destination, raw_name, output_name,
                 console, mergeVars, raised, outcome, exit_code>>

\* `destination or fallback`
ResolveTarget(dest) == IF dest # None THEN "dst" ELSE "src"

DirKind(fsv, target) == IF target = "src" THEN fsv.src ELSE fsv.dst

\* _resolve_destination: target.mkdir(parents=True, exist_ok=True) makes a
\* missing directory, accepts an existing one, and raises FileExistsError on
\* a path that is a file.
ResolveDestination ==
  /\ pc = "resolve_destination"
  /\ LET target == ResolveTarget(settings.destination)
     IN  IF DirKind(fs, target) = "file"
           THEN /\ Raise("FileExistsError")
                /\ UNCHANGED <<fs, destination>>
           ELSE /\ fs' = IF target = "dst" THEN [fs EXCEPT !.dst = "dir"] ELSE fs
                /\ destination' = target
                /\ pc' = "resolve_output"
                /\ raised' = raised
  /\ UNCHANGED <<callVars, settings, fs0, pdf_lib, pdf_files, raw_name, output_name,
                 console, mergeVars, outcome, exit_code>>

\* mkdir of a missing destination is refused by the system (permissions,
\* read-only medium).
MkdirFails ==
  /\ pc = "resolve_destination"
  /\ DirKind(fs, ResolveTarget(settings.destination)) = "missing"
  /\ Raise("PermissionError")
  /\ UNCHANGED <<callVars, settings, fs, fs0, pdf_lib, execVars, console, mergeVars,
                 outcome, exit_code>>

_resolve_output_name(s) ==
  ensure_pdf_extension(
    IF Truthy(s.output_name) THEN sanitize_filename(s.output_name[1])
    ELSE sanitize_filename(s.folder_name))

\* Path.exists() of target / name.
PathExists(fsv, target, name) ==
  IF target = "src"
    THEN \E i \in DOMAIN fsv.tree : fsv.tree[i].sub = <<>> /\ fsv.tree[i].name = name
    ELSE name \in fsv.dstFiles

\* The values datetime.now() may return during a run.
Clock ==
  { [year |-> 2026, month |-> 11, day |-> 4, hour |-> 9, minute |-> 5, second |-> s] :
      s \in {7, 8} }

\* execute, lines 54-60: the file name, the one existence check, the warning.
ResolveOutput ==
  /\ pc = "resolve_output"
  /\ \E now \in Clock :
       LET name == _resolve_output_name(settings)
           unique == ensure_unique_output(name, PathExists(fs, destination, name), now)
       IN  /\ raw_name' = name
           /\ output_name' = unique
           /\ console' = [console EXCEPT !.exists_warning = (unique # name)]
  /\ pc' = "preview"
  /\ UNCHANGED <<callVars, settings, fs, fs0, pdf_lib, pdf_files, destination, mergeVars,
                 raised, outcome, exit_code>>

\* execute, lines 62-67.
Preview ==
  /\ pc = "preview"
  /\ console' = [console EXCEPT !.preview =
                   Some(print_files(limit_preview(pdf_files, MAX_PREVIEW_FILES),
                                    MAX_PREVIEW_FILES, Len(pdf_files)))]
  /\ pc' = "merge"
  /\ UNCHANGED <<callVars, settings, fs, fs0, pdf_lib, execVars, mergeVars, raised, outcome,
                 exit_code>>

\* ------------------------------------------------------------------------
\* core/merger.py
\* ------------------------------------------------------------------------

\* Where the loop over files goes when the file at position i is done with.
NextFile(i, fileList) == IF i > Len(fileList) THEN "save" ELSE "open"

\* execute line 80 and merge lines 60-70: the guard on the PDF library, then
\* the writer, list(pdf_files) and the counter.
MergeStart ==
  /\ pc = "merge"
  /\ IF ~pdf_lib
       THEN /\ Raise("RuntimeError")
            /\ UNCHANGED <<files, index>>
       ELSE /\ files' = pdf_files
            /\ index' = 1
            /\ pc' = NextFile(1, pdf_files)
            /\ raised' = raised
  /\ UNCHANGED <<callVars, settings, fs, fs0, pdf_lib, execVars, console, pdf_writer,
                 total_pages, handle, page_no, attempted, failed, out_open,
                 outcome, exit_code>>

\* A plain open/close pair: the file stays open when the block raises.
CloseOnSuccessOnly(handles, id, raising) ==
  IF raising THEN handles ELSE handles \ {id}

\* The end of `with open(pdf_path, "rb") as handle`: the file is closed,
\* whether the block ends or raises.
WithExit(handles, id, raising) == handles \ {id}

\* open(pdf_path, "rb") succeeds.
OpenInput ==
  /\ pc = "open"
  /\ handle' = handle \cup {files[index].id}
  /\ attempted' = Append(attempted, files[index])
  /\ page_no' = 0
  /\ pc' = "read"
  /\ UNCHANGED <<callVars, settings, fs, fs0, pdf_lib, execVars, console, files, pdf_writer,
                 total_pages, index, failed, out_open, raised, outcome, exit_code>>

\* len(reader.pages): the number of pages of the document stored in a file.
PageCount(path) == path.pages

\* PdfReader(handle) parses the file.
ReadPdf ==
  /\ pc = "read"
  /\ pc' = "add_page"
  /\ UNCHANGED <<callVars, settings, fs, fs0, pdf_lib, execVars, console, mergeVars, raised,
                 outcome, exit_code>>

\* One turn of `for page in reader.pages: pdf_writer.add_page(page)`; after
\* the last page, lines 80-81 and the end of the with block.
AddPage ==
  /\ pc = "add_page"
  /\ IF page_no < PageCount(files[index])
       THEN /\ pdf_writer' = Append(pdf_writer, <<files[index].id, page_no + 1>>)
            /\ page_no' = page_no + 1
            /\ UNCHANGED <<total_pages, handle, index, pc>>
       ELSE /\ total_pages' = total_pages + PageCount(files[index])
            /\ handle' = WithExit(handle, files[index].id, FALSE)
            /\ index' = index + 1
            /\ pc' = NextFile(index + 1, files)
            /\ UNCHANGED <<pdf_writer, page_no>>
  /\ UNCHANGED <<callVars, settings, fs, fs0, pdf_lib, execVars, console, files, attempted,
                 failed, out_open, raised, outcome, exit_code>>

\* open, PdfReader, reading a page or add_page raises an Exception: the with
\* block, when it was entered, closes the handle, and control reaches the
\* except clause.
FileRaises ==
  /\ pc \in {"open", "read", "add_page"}
  /\ pc = "add_page" => page_no < PageCount(files[index])
  /\ attempted' = IF pc = "open" THEN Append(attempted, files[index]) ELSE attempted
  /\ failed' = Append(failed, files[index])
  /\ handle' = IF pc = "open" THEN handle
                ELSE WithExit(handle, files[index].id, TRUE)
  /\ pc' = "except"
  /\ UNCHANGED <<callVars, settings, fs, fs0, pdf_lib, execVars, console, files, pdf_writer,
                 total_pages, index, page_no, out_open, raised, outcome, exit_code>>

\* An except clause that prints the error and raises it again.
ExceptClauseReraises(errors, path, i, fileList) ==
  [errors |-> Append(errors, path.name), index |-> i, pc |-> "handler",
   raised |-> "Exception"]

\* `except Exception as exc`: what the clause does with the failure: the
\* errors printed so far, and where control goes.
ExceptClause(errors, path, i, fileList) ==
  [errors |-> Append(errors, path.name), index |-> i + 1, pc |-> NextFile(i + 1, fileList),
   raised |-> "none"]

Except ==
  /\ pc = "except"
  /\ LET r == ExceptClause(console.errors, files[index], index, files)
     IN  /\ console' = [console EXCEPT !.errors = r.errors]
         /\ index' = r.index
         /\ IF r.raised = "none"
              THEN pc' = r.pc /\ raised' = raised
              ELSE Raise(r.raised)
  /\ UNCHANGED <<callVars, settings, fs, fs0, pdf_lib, execVars, files, pdf_writer,
                 total_pages, handle, page_no, attempted, failed, out_open,
                 outcome, exit_code>>

\* open(output_path, "wb") on the filesystem: the file is created, or an
\* existing file of that name is truncated and becomes the new document.
CreateOutput(fsv, target, name) ==
  LET made == [id |-> 0, sub |-> <<>>, name |-> name, kind |-> "file", pages |-> 0]
      hit == {i \in DOMAIN fsv.tree : fsv.tree[i].sub = <<>> /\ fsv.tree[i].name = name}
  IN  [fsv EXCEPT
         !.tree = IF target # "src" THEN @
                  ELSE IF hit = {} THEN Append(@, made)
                  ELSE [i \in DOMAIN @ |-> IF i \in hit THEN made ELSE @[i]],
         !.dstFiles = IF target = "dst" THEN @ \cup {name} ELSE @,
         !.out = Some([target |-> target, name |-> name, pages |-> <<>>,
                       complete |-> FALSE])]

\* merge lines 91-95: the output file is opened for writing.
SaveOpen ==
  /\ pc = "save"
  /\ fs' = CreateOutput(fs, destination, output_name)
  /\ out_open' = TRUE
  /\ pc' = "write"
  /\ UNCHANGED <<callVars, settings, fs0, pdf_lib, execVars, console, files, pdf_writer,
                 total_pages, index, handle, page_no, attempted, failed, raised,
                 outcome, exit_code>>

\* open(output_path, "wb") raises (the path is not writable).
SaveOpenFails ==
  /\ pc = "save"
  /\ Raise("PermissionError")
  /\ UNCHANGED <<callVars, settings, fs, fs0, pdf_lib, execVars, console, mergeVars, outcome,
                 exit_code>>

\* merge line 96: pdf_writer.write(handle), then the with block closes it.
WriteOutput ==
  /\ pc = "write"
  /\ fs' = [fs EXCEPT !.out = Some([@[1] EXCEPT !.pages = pdf_writer,
                                                !.complete = TRUE])]
  /\ out_open' = FALSE
  /\ pc' = "stat"
  /\ UNCHANGED <<callVars, settings, fs0, pdf_lib, execVars, console, files, pdf_writer,
                 total_pages, index, handle, page_no, attempted, failed, raised,
                 outcome, exit_code>>

\* pdf_writer.write raises (the disk is full): the with block closes the
\* handle, the file stays as far as it was written.
WriteFails ==
  /\ pc = "write"
  /\ out_open' = FALSE
  /\ Raise("OSError")
  /\ UNCHANGED <<callVars, settings, fs, fs0, pdf_lib, execVars, console, files, pdf_writer,
                 total_pages, index, handle, page_no, attempted, failed, outcome,
                 exit_code>>

\* merge lines 98-103 and execute line 81: the MergeOutcome is returned.
ReturnOutcome ==
  /\ pc = "stat"
  /\ outcome' = Some([output_name |-> output_name, total_pages |-> total_pages])
  /\ pc' = "return"
  /\ UNCHANGED <<callVars, settings, fs, fs0, pdf_lib, execVars, console, mergeVars, raised,
                 exit_code>>

\* Ctrl-C while execute runs: KeyboardInterrupt is no Exception, so the
\* except clause of the loop lets it pass; the with blocks close what is open.
Interrupt ==
  /\ pc \in {"validate", "scan", "resolve_destination", "resolve_output", "preview",
             "merge", "open", "read", "add_page", "except", "save", "write", "stat"}
  /\ handle' = IF pc \in {"read", "add_page"}
                THEN WithExit(handle, files[index].id, TRUE)
                ELSE handle
  /\ out_open' = FALSE
  /\ Raise("KeyboardInterrupt")
  /\ UNCHANGED <<callVars, settings, fs, fs0, pdf_lib, execVars, console, files, pdf_writer,
                 total_pages, index, page_no, attempted, failed, outcome, exit_code>>

\* ------------------------------------------------------------------------
\* cli/app.py
\* ------------------------------------------------------------------------

\* run with the interrupt handler of the standalone script (sys.exit(0)).
RunReturnsZeroOnInterrupt(exc, result) ==
  IF exc = "KeyboardInterrupt" THEN 0
  ELSE IF exc # "none" THEN 1
  ELSE 0

\* PdfMergerApp.run, lines 50-78: the value returned for what execute raised
\* (exc) or returned (result).
RunReturns(exc, result) ==
  IF exc \in {"FileNotFoundError", "NotADirectoryError"} THEN 1
  ELSE IF exc = "RuntimeError" THEN 1
  ELSE IF exc = "KeyboardInterrupt" THEN 1
  ELSE IF exc # "none" THEN 1
  ELSE IF result = None THEN 0
  ELSE 0

Exit ==
  /\ pc \in {"return", "handler"}
  /\ exit_code' = RunReturns(raised, outcome)
  /\ pc' = "done"
  /\ UNCHANGED <<callVars, settings, fs, fs0, pdf_lib, execVars, console, mergeVars, raised,
                 outcome>>

\* ------------------------------------------------------------------------
\* The full run: every step of PdfMergerApp.run on small folders.
\* ------------------------------------------------------------------------

\* The sub-sequences of a sequence (its elements kept in order).
RECURSIVE SubSequences(_)
SubSequences(s) ==
  IF s = <<>> THEN {<<>>}
  ELSE LET rest == SubSequences(Tail(s))
       IN  rest \cup {<<s[1]>> \o r : r \in rest}

\* The entries a source folder of the full run may hold, in listing order.
RunPool ==
  << [id |-> 1, sub |-> <<>>, name |-> <<"B", ".", "p", "d", "f">>, kind |-> "file", pages |-> 2],
     [id |-> 2, sub |-> <<>>, name |-> <<"a", ".", "p", "d", "f">>, kind |-> "file", pages |-> 3],
     [id |-> 3, sub |-> <<"x">>, name |-> <<"c", ".", "p", "d", "f">>, kind |-> "file", pages |-> 1],
     [id |-> 4, sub |-> <<>>, name |-> <<"d", "o", "c", "s", ".", "p", "d", "f">>, kind |-> "file", pages |-> 1],
     [id |-> 5, sub |-> <<>>,
      name |-> <<"d", "o", "c", "s", "_", "2", "0", "2", "6", "1", "1", "0", "4", "_",
                 "0", "9", "0", "5", "0", "7", ".", "p", "d", "f">>,
      kind |-> "file", pages |-> 1],
     [id |-> 6, sub |-> <<>>, name |-> <<"n", ".", "t", "x", "t">>, kind |-> "file", pages |-> 0] >>

RunTrees == SubSequences(SubSeq(RunPool, 1, MaxFiles))

RunSettings ==
  [ folder_name : {<<"d", "o", "c", "s">>},
    recursive   : BOOLEAN,
    output_name : {None, Some(<<"a">>)},
    destination : {None, Some("dst")} ]

\* The filesystems a run with settings s may meet: a source path that is
\* missing, a file or a directory, and, when a destination is given, a
\* destination that is missing, a file or a directory.
RunFilesystems(s) ==
  { f \in [ src : {"missing", "file", "dir"}, tree : RunTrees,
            dst : {"missing", "file", "dir"},
            dstFiles : {{}, {<<"a", ".", "p", "d", "f">>}}, out : {None} ] :
      /\ f.src # "dir" => f.tree = <<>>
      /\ f.dst # "dir" => f.dstFiles = {}
      /\ s.destination = None => f.dst = "missing" }

Init ==
  \E s \in RunSettings : \E f \in RunFilesystems(s) : \E lib \in BOOLEAN :
    InitRun(s, f, lib)

Next ==
  \/ Validate
  \/ Scan
  \/ ResolveDestination
  \/ MkdirFails
  \/ ResolveOutput
  \/ Preview
  \/ MergeStart
  \/ OpenInput
  \/ ReadPdf
  \/ AddPage
  \/ FileRaises
  \/ Except
  \/ SaveOpen
  \/ SaveOpenFails
  \/ WriteOutput
  \/ WriteFails
  \/ ReturnOutcome
  \/ Interrupt
  \/ Exit

Spec == Init /\ [][Next]_vars

\* ------------------------------------------------------------------------
\* Vocabulary of the claims.
\* ------------------------------------------------------------------------

\* The pages of the document stored in a file, in their in-file order.
PagesOf(path) == [k \in 1..PageCount(path) |-> <<path.id, k>>]

RECURSIVE ConcatPages(_)
ConcatPages(fileList) ==
  IF fileList = <<>> THEN <<>>
  ELSE PagesOf(fileList[1]) \o ConcatPages(Tail(fileList))

RECURSIVE SumPages(_)
SumPages(fileList) ==
  IF fileList = <<>> THEN 0
  ELSE PageCount(fileList[1]) + SumPages(Tail(fileList))

\* The files of the merge that were processed without error.
Succeeded == SelectSeq(files, LAMBDA f : f \notin Range(failed))

\* The document was written in full.
OutputWritten == fs.out # None /\ fs.out[1].complete

\* The loop of merge has run and is over.
LoopOver == index >= 1 /\ index > Len(files)

\* C1: the pages of the written document are the pages of the files processed
\* without error, file after file in input order, each file's pages in their
\* in-file order.
C1_OutputIsConcatenation ==
  OutputWritten => fs.out[1].pages = ConcatPages(Succeeded)

\* C2: the written document holds no page of a file whose processing raised,
\* and the reported total_pages is the sum of the page counts of the files
\* processed without error.
C2_FailedFilesContributeNothing ==
  /\ OutputWritten =>
       \A i \in DOMAIN fs.out[1].pages :
         \A f \in Range(failed) : fs.out[1].pages[i][1] # f.id
  /\ outcome # None => outcome[1].total_pages = SumPages(Succeeded)

\* C3: a failing file never ends the merge.  Only a user interrupt ends the
\* loop before every file was tried; once the loop is over every discovered
\* file was tried once, in input order, and one error was printed for each
\* file that failed; and a run that meets no other failure writes the document
\* and returns 0 with a MergeOutcome, whatever files failed.
C3_FailuresNeverAbort ==
  /\ (index >= 1 /\ pc \in {"handler", "done"} /\ raised # "KeyboardInterrupt")
       => LoopOver
  /\ pc = "except" => raised = "none"
  /\ LoopOver =>
       /\ files = pdf_files
       /\ attempted = files
       /\ failed = SelectSeq(files, LAMBDA f : f \in Range(failed))
       /\ console.errors = [i \in DOMAIN failed |-> failed[i].name]
  /\ (pc = "done" /\ raised = "none" /\ index >= 1) =>
       /\ outcome # None
       /\ OutputWritten
       /\ exit_code = 0

\* C3's case: every input file failed, and the run still wrote the document
\* and returned 0.
C3_Witness ==
  /\ pc = "done"
  /\ Len(files) >= 2
  /\ Len(failed) = Len(files)
  /\ OutputWritten
  /\ exit_code = 0

\* C7: on a source path that is missing or no directory the run never gets
\* to the scan: it ends with FileNotFoundError or NotADirectoryError (unless
\* the user interrupts it first), returns 1, and leaves the filesystem as it
\* was: no destination directory, no merge, no output file.
C7_InvalidSourceFailsFirst ==
  fs0.src # "dir" =>
    /\ pc \in {"validate", "handler", "done"}
    /\ fs = fs0
    /\ index = 0
    /\ (pc \in {"handler", "done"} /\ raised # "KeyboardInterrupt") =>
         raised = (IF fs0.src = "missing" THEN "FileNotFoundError"
                   ELSE "NotADirectoryError")
    /\ pc = "done" => exit_code = 1

\* C7's case: the source path is a file, a destination that does not exist
\* was asked for, and the run has ended.
C7_Witness ==
  /\ pc = "done"
  /\ fs0.src = "file"
  /\ settings.destination # None
  /\ fs.dst = "missing"
  /\ raised = "NotADirectoryError"
  /\ exit_code = 1

\* C8: when the scan of a valid folder finds nothing, execute returns None
\* and run returns 0, and nothing was touched: the destination directory was
\* not made, the merge did not start, no output file exists.
C8_NothingFoundLeavesNoTrace ==
  (fs0.src = "dir" /\ pc \notin {"validate", "scan"} /\ pdf_files = <<>>) =>
    /\ pc \in {"return", "handler", "done"}
    /\ fs = fs0
    /\ index = 0
    /\ raised \in {"none", "KeyboardInterrupt"}
    /\ (pc = "done" /\ raised = "none") => outcome = None /\ exit_code = 0

\* C8's case: a folder whose only PDF lies in a sub-directory, scanned without
\* recursion, with a destination that does not exist: the run ended with 0.
C8_Witness ==
  /\ pc = "done"
  /\ fs0.src = "dir"
  /\ fs0.tree # <<>>
  /\ pdf_files = <<>>
  /\ raised = "none"
  /\ settings.destination # None
  /\ fs.dst = "missing"
  /\ exit_code = 0

\* The run merged: execute returned a MergeOutcome for a written document.
MergeCompleted == outcome # None /\ OutputWritten

\* The run found nothing to merge: execute returned None.
NothingToMerge == raised = "none" /\ outcome = None /\ pdf_files = <<>>

\* C9: run returns 0 exactly when the workflow merged or found nothing to
\* merge, and 1 whenever execute raised: validation, missing PDF library,
\* destination or output not writable, user interrupt, anything else.
C9_ExitCodes ==
  pc = "done" =>
    /\ exit_code \in {0, 1}
    /\ exit_code = 0 <=> (MergeCompleted \/ NothingToMerge)
    /\ exit_code = 1 <=> raised # "none"

\* C9's case: the user interrupted the run while a file was being processed.
C9_Witness ==
  /\ pc = "done"
  /\ raised = "KeyboardInterrupt"
  /\ index >= 1
  /\ Len(attempted) = 1
  /\ Len(files) >= 2
  /\ pdf_writer # <<>>
  /\ exit_code = 1

\* ------------------------------------------------------------------------
\* Discovery runs: folders with nested, non-PDF and directory entries, in
\* every listing order; the run is followed up to the end of the scan.
\* ------------------------------------------------------------------------

ScanPool ==
  << [id |-> 1, sub |-> <<>>, name |-> <<"B", ".", "p", "d", "f">>, kind |-> "file", pages |-> 1],
     [id |-> 2, sub |-> <<>>, name |-> <<"a", ".", "p", "d", "f">>, kind |-> "file", pages |-> 1],
     [id |-> 3, sub |-> <<"x", "y">>, name |-> <<"a", ".", "p", "d", "f">>, kind |-> "file", pages |-> 1],
     [id |-> 4, sub |-> <<>>, name |-> <<"d", ".", "p", "d", "f">>, kind |-> "dir", pages |-> 0],
     [id |-> 5, sub |-> <<>>, name |-> <<"n", ".", "t", "x", "t">>, kind |-> "file", pages |-> 0],
     [id |-> 6, sub |-> <<>>, name |-> <<"A", ".", "P", "D", "F">>, kind |-> "file", pages |-> 1],
     [id |-> 7, sub |-> <<"x">>, name |-> <<"b", ".", "p", "d", "f">>, kind |-> "file", pages |-> 1],
     [id |-> 8, sub |-> <<"x">>, name |-> <<"x", ".", "p", "d", "f">>, kind |-> "dir", pages |-> 0] >>

\* The sequences that list each element of some subset of S once.
RECURSIVE Arrangements(_)
Arrangements(S) ==
  {<<>>} \cup UNION { {<<e>> \o r : r \in Arrangements(S \ {e})} : e \in S }

ScanSettings ==
  [ folder_name : {<<"d", "o", "c", "s">>}, recursive : BOOLEAN,
    output_name : {None}, destination : {None} ]

ScanFilesystems ==
  { f \in [ src : {"missing", "file", "dir"},
            tree : Arrangements(Range(SubSeq(ScanPool, 1, MaxEntries))),
            dst : {"missing"}, dstFiles : {{}}, out : {None} ] :
      f.src # "dir" => f.tree = <<>> }

InitScan ==
  \E s \in ScanSettings : \E f \in ScanFilesystems : InitRun(s, f, TRUE)

NextScan ==
  \/ Validate
  \/ Scan
  \/ Exit

SpecScan == InitScan /\ [][NextScan]_vars

\* The scan has returned.
Scanned == fs0.src = "dir" /\ pc \notin {"validate", "scan", "handler"}

\* The entries scan is to return: the regular files in scope (the whole tree
\* when recursive, the direct children otherwise) whose name ends in ".pdf".
PdfFilesInScope ==
  { e \in Range(fs0.tree) :
      /\ e.kind = "file"
      /\ settings.recursive \/ e.sub = <<>>
      /\ EndsWith(e.name, <<".", "p", "d", "f">>) }

\* C4: scan returns the regular files in scope with the PDF extension, each
\* once and nothing else, ordered so that the lowercased file names never
\* decrease; a folder holding N PDF files and nothing else yields N entries.
C4_ScanReturnsSortedPdfFiles ==
  Scanned =>
    /\ Range(pdf_files) = PdfFilesInScope
    /\ Len(pdf_files) = Cardinality(PdfFilesInScope)
    /\ \A i, j \in DOMAIN pdf_files :
         i < j => StrLeq(Lower(pdf_files[i].name), Lower(pdf_files[j].name))
    /\ PdfFilesInScope = Range(fs0.tree) => Len(pdf_files) = Len(fs0.tree)

\* C4's case: a recursive scan of a folder that lists B.pdf before a.pdf and
\* also holds a nested PDF, a directory named like a PDF and another file.
C4_Witness ==
  /\ Scanned
  /\ settings.recursive
  /\ Len(fs0.tree) >= 5
  /\ fs0.tree[1].name = <<"B", ".", "p", "d", "f">>
  /\ Len(pdf_files) = 3
  /\ pdf_files[3].name = <<"B", ".", "p", "d", "f">>
  /\ \E e \in Range(fs0.tree) : e.kind = "dir"
  /\ \E e \in Range(fs0.tree) : e.kind = "file" /\ e \notin Range(pdf_files)

\* ------------------------------------------------------------------------
\* Naming runs: user-supplied and folder names of many shapes, destinations
\* that already hold the resolved name; the run is followed up to the end of
\* the name resolution.
\* ------------------------------------------------------------------------

\* The strings over S of length at most n.
RECURSIVE StringsUpTo(_, _)
StringsUpTo(S, n) ==
  IF n = 0 THEN {<<>>}
  ELSE LET shorter == StringsUpTo(S, n - 1)
       IN  shorter \cup {<<c>> \o t : c \in S, t \in shorter}

NamePool ==
  { <<"R", "e", "p", "o", "r", "t">>, <<"M", "y", "D", "o", "c", "s">> }
  \cup { body \o tail :
           body \in StringsUpTo({"a", "_", " ", "/", "."}, MaxBody),
           tail \in { <<>>, <<".", "p", "d", "f">>, <<".", "P", "D", "F">>,
                      <<"p", "d", "f">> } }

NameSettings ==
  [ folder_name : { <<"M", "y", "D", "o", "c", "s">>, <<"m", "y", ":", "d", ".", "P", "d", "f">> },
    recursive   : {FALSE},
    output_name : {None} \cup {Some(n) : n \in NamePool},
    destination : {None, Some("dst")} ]

\* What the destination may hold: nothing, the resolved name, or the resolved
\* name and the name a rename at 09:05:07 gives.
NameFilesystems(s) ==
  LET name == _resolve_output_name(s)
      renamed == ensure_unique_output(name, TRUE, CHOOSE t \in Clock : t.second = 7)
  IN  { f \in [ src : {"dir"}, tree : {SubSeq(RunPool, 1, 1)}, dst : {"missing", "dir"},
                dstFiles : {{}, {name}, {name, renamed}}, out : {None} ] :
          /\ f.dst # "dir" => f.dstFiles = {}
          /\ s.destination = None => f.dst = "missing" }

InitNames ==
  \E s \in NameSettings : \E f \in NameFilesystems(s) : InitRun(s, f, TRUE)

NextNames ==
  \/ Validate
  \/ Scan
  \/ ResolveDestination
  \/ ResolveOutput

SpecNames == InitNames /\ [][NextNames]_vars

\* The name of the output has been resolved.
NameResolved == pc = "preview"

\* A string of the shape \d{8}_\d{6}.
IsTimestamp(ts) ==
  /\ Len(ts) = 15
  /\ \A i \in (1..8) \cup (10..15) : ts[i] \in Range(Digits)
  /\ ts[9] = "_"

\* The name without its last dot and what follows it (the whole name when its
\* only dot comes first).
StemOf(name) ==
  IF \E i \in 2..(Len(name) - 1) : name[i] = "."
    THEN SubSeq(name, 1, (CHOOSE i \in 2..(Len(name) - 1) :
                            /\ name[i] = "."
                            /\ \A k \in (i + 1)..(Len(name) - 1) : name[k] # ".") - 1)
    ELSE name

\* C5: when destination/resolved name exists as the run starts, the final
\* name is <stem>_<YYYYMMDD_HHMMSS>.pdf, the stem that of the resolved name;
\* otherwise it is the resolved name.  The check is made once: a renamed
\* output is not looked up again.
C5_CollisionRenamesOnce ==
  NameResolved =>
    IF PathExists(fs0, destination, raw_name)
      THEN /\ Len(output_name) = Len(StemOf(raw_name)) + 20
           /\ SubSeq(output_name, 1, Len(StemOf(raw_name))) = StemOf(raw_name)
           /\ output_name[Len(StemOf(raw_name)) + 1] = "_"
           /\ IsTimestamp(SubSeq(output_name, Len(StemOf(raw_name)) + 2,
                                 Len(StemOf(raw_name)) + 16))
           /\ SubSeq(output_name, Len(output_name) - 3, Len(output_name))
                = <<".", "p", "d", "f">>
           /\ console.exists_warning
      ELSE /\ output_name = raw_name
           /\ ~console.exists_warning

\* C5's case: Report.pdf exists at the destination, and so does the renamed
\* file, which the run takes all the same.
C5_Witness ==
  /\ NameResolved
  /\ raw_name = <<"R", "e", "p", "o", "r", "t", ".", "p", "d", "f">>
  /\ PathExists(fs0, destination, raw_name)
  /\ SubSeq(output_name, 1, 7) = <<"R", "e", "p", "o", "r", "t", "_">>
  /\ output_name # raw_name
  /\ PathExists(fs, destination, output_name)

\* Whether a name ends with the PDF extension, letter case ignored.
HasPdfExtension(name) ==
  /\ Len(name) >= 4
  /\ name[Len(name) - 3] = "."
  /\ name[Len(name) - 2] \in {"p", "P"}
  /\ name[Len(name) - 1] \in {"d", "D"}
  /\ name[Len(name)] \in {"f", "F"}

\* The resolved name built on a base name: the extension is appended exactly
\* when the base does not end with it.
IsResolvedFrom(name, base) ==
  IF HasPdfExtension(base) THEN name = base
  ELSE name = base \o <<".", "p", "d", "f">>

\* C6 as stated: the resolved name is built on the sanitized output name
\* whenever an output name was given, on the sanitized folder name otherwise.
C6_NameFromOutputWheneverGiven ==
  NameResolved =>
    IsResolvedFrom(raw_name,
                   IF settings.output_name # None
                     THEN sanitize_filename(settings.output_name[1])
                     ELSE sanitize_filename(settings.folder_name))

\* C6 amended: the resolved name is built on the sanitized output name when a
\* non-empty output name was given, on the sanitized folder name when none or
\* the empty string was given; the extension is appended exactly when the
\* sanitized name does not end with it, letter case ignored.  "Report" gives
\* "Report.pdf"; folder "MyDocs" with no output name gives "MyDocs.pdf".
C6_NameFromNonEmptyOutput ==
  NameResolved =>
    /\ IsResolvedFrom(raw_name,
                      IF settings.output_name # None /\ settings.output_name # Some(<<>>)
                        THEN sanitize_filename(settings.output_name[1])
                        ELSE sanitize_filename(settings.folder_name))
    /\ settings.output_name = Some(<<"R", "e", "p", "o", "r", "t">>)
         => raw_name = <<"R", "e", "p", "o", "r", "t", ".", "p", "d", "f">>
    /\ (settings.output_name = None /\ settings.folder_name = <<"M", "y", "D", "o", "c", "s">>)
         => raw_name = <<"M", "y", "D", "o", "c", "s", ".", "p", "d", "f">>

\* C6's case: an output name that already carries the extension in capitals
\* and needs sanitizing, resolved to itself, sanitized.
C6_Witness ==
  /\ NameResolved
  /\ settings.output_name = Some(<<"/", "a", ".", "P", "D", "F">>)
  /\ raw_name = <<"a", ".", "P", "D", "F">>

\* ------------------------------------------------------------------------
\* Preview runs: folders of up to MaxListed PDF files; the run is followed
\* until the merge has taken its list of files.
\* ------------------------------------------------------------------------

\* The i-th file of a large folder: a.pdf, b.pdf, ..., every third one nested.
PreviewEntry(i) ==
  [ id |-> i, sub |-> IF i % 3 = 0 THEN <<"x">> ELSE <<>>,
    name |-> <<LowerLetters[i]>> \o PDF_EXTENSION, kind |-> "file", pages |-> 1 ]

\* A sequence backwards.
Reverse(s) == [i \in 1..Len(s) |-> s[Len(s) + 1 - i]]

PreviewTrees ==
  UNION { { [i \in 1..n |-> PreviewEntry(i)], Reverse([i \in 1..n |-> PreviewEntry(i)]) } :
            n \in 0..MaxListed }

PreviewSettings ==
  [ folder_name : {<<"d", "o", "c", "s">>}, recursive : BOOLEAN,
    output_name : {None}, destination : {None, Some("dst")} ]

PreviewFilesystems ==
  [ src : {"dir"}, tree : PreviewTrees, dst : {"missing"}, dstFiles : {{}},
    out : {None} ]

InitPreview ==
  \E s \in PreviewSettings : \E f \in PreviewFilesystems : \E lib \in BOOLEAN :
    InitRun(s, f, lib)

NextPreview ==
  \/ Validate
  \/ Scan
  \/ ResolveDestination
  \/ ResolveOutput
  \/ Preview
  \/ MergeStart
  \/ Exit

SpecPreview == InitPreview /\ [][NextPreview]_vars

\* The smaller of two numbers.
Min(a, b) == IF a < b THEN a ELSE b

\* C10: the preview does not limit the merge.  The merge takes the whole
\* discovered sequence, in discovery order; the preview numbers the names of
\* the first min(N, 10) files and, when N > 10, announces N - 10 more, so that
\* names shown and files announced add up to N.
C10_PreviewDoesNotCapMerge ==
  /\ index >= 1 => files = pdf_files
  /\ console.preview # None =>
       LET shown == console.preview[1]
           N == Len(pdf_files)
       IN  /\ Len(shown.lines) = Min(N, 10)
           /\ \A i \in DOMAIN shown.lines : shown.lines[i] = <<i, pdf_files[i].name>>
           /\ shown.more = IF N > 10 THEN <<N - 10>> ELSE <<>>
           /\ Len(shown.lines) + (IF shown.more = <<>> THEN 0 ELSE shown.more[1]) = N

\* C10's case: twelve files were found, ten were listed, two announced, and
\* the merge took all twelve.
C10_Witness ==
  /\ index >= 1
  /\ Len(pdf_files) = 12
  /\ Len(files) = 12
  /\ console.preview # None
  /\ Len(console.preview[1].lines) = 10
  /\ console.preview[1].more = <<2>>

\* How many directories lie between the source folder and an entry.
Depth(e) == Len(e.sub)

\* The regular files of the tree whose name ends in ".pdf", at any depth.
PdfFilesOfTree ==
  { e \in Range(fs0.tree) : e.kind = "file" /\ EndsWith(e.name, <<".", "p", "d", "f">>) }

\* C11: a recursive scan returns the PDF files of every depth of the tree; a
\* scan without recursion returns exactly those that are direct children of
\* the source folder.
C11_RecursionDecidesDepth ==
  Scanned =>
    /\ Range(pdf_files) \subseteq PdfFilesOfTree
    /\ \A e \in PdfFilesOfTree :
         e \in Range(pdf_files) <=> (settings.recursive \/ Depth(e) = 0)

\* C11's case: a tree with PDF files at depth 0 and at depth 2, scanned
\* recursively: both are returned.
C11_Witness ==
  /\ Scanned
  /\ settings.recursive
  /\ \E e \in Range(pdf_files) : Depth(e) = 0
  /\ \E e \in Range(pdf_files) : Depth(e) = 2

\* The same tree scanned without recursion: only the depth-0 file is returned.
C11_WitnessFlat ==
  /\ Scanned
  /\ ~settings.recursive
  /\ \E e \in PdfFilesOfTree : Depth(e) = 2
  /\ pdf_files # <<>>
  /\ \A e \in Range(pdf_files) : Depth(e) = 0

\* ------------------------------------------------------------------------
\* sanitize_filename on its own: called on a string, then on its result.
\* ------------------------------------------------------------------------

\* The arguments: every string of up to MaxText characters over the letter a,
\* the dot, the underscore, the space and the nine replaced characters, and
\* some longer names.
Texts ==
  StringsUpTo({"a", ".", "_", " "} \cup IllegalChars, MaxText)
  \cup { <<"a", "_", "_", "b">>,
         <<" ", "_", "a", "/", " ", "/", "b", "_", " ">>,
         <<"_", " ", "_", "_", " ", "_">>,
         <<"m", "y", ":", "d", "o", "c", "s", "?", ".", "p", "d", "f">>,
         <<"<", "a", ">", "|", "<", "b", ">">> }

InitSanitize ==
  /\ \E x \in Texts : filename = x
  /\ sanitized = <<>>
  /\ resanitized = <<>>
  /\ pc = "sanitize"
  /\ settings = [folder_name |-> <<>>, recursive |-> FALSE, output_name |-> None,
                 destination |-> None]
  /\ fs = [src |-> "missing", tree |-> <<>>, dst |-> "missing", dstFiles |-> {},
           out |-> None]
  /\ fs0 = fs
  /\ pdf_lib = TRUE
  /\ pdf_files = <<>>
  /\ destination = ""
  /\ raw_name = <<>>
  /\ output_name = <<>>
  /\ console = [preview |-> None, errors |-> <<>>, exists_warning |-> FALSE]
  /\ files = <<>>
  /\ pdf_writer = <<>>
  /\ total_pages = 0
  /\ index = 0
  /\ handle = {}
  /\ page_no = 0
  /\ attempted = <<>>
  /\ failed = <<>>
  /\ out_open = FALSE
  /\ raised = "none"
  /\ outcome = None
  /\ exit_code = -1

SanitizeOnce ==
  /\ pc = "sanitize"
  /\ sanitized' = sanitize_filename(filename)
  /\ pc' = "sanitize_again"
  /\ UNCHANGED <<filename, resanitized, settings, fs, fs0, pdf_lib, execVars,
                 console, mergeVars, raised, outcome, exit_code>>

SanitizeAgain ==
  /\ pc = "sanitize_again"
  /\ resanitized' = sanitize_filename(sanitized)
  /\ pc' = "sanitized"
  /\ UNCHANGED <<filename, sanitized, settings, fs, fs0, pdf_lib, execVars,
                 console, mergeVars, raised, outcome, exit_code>>

NextSanitize ==
  \/ SanitizeOnce
  \/ SanitizeAgain

SpecSanitize == InitSanitize /\ [][NextSanitize]_vars

\* C12: sanitizing a sanitized name changes nothing; a sanitized name holds
\* none of < > : " / \ | ? *, no two underscores in a row, and neither begins
\* nor ends with an underscore or a space.
C12_SanitizeIsIdempotent ==
  /\ pc \in {"sanitize_again", "sanitized"} =>
       /\ \A i \in DOMAIN sanitized :
            sanitized[i] \notin {"<", ">", ":", "\"", "/", "\\", "|", "?", "*"}
       /\ \A i \in 1..(Len(sanitized) - 1) :
            ~(sanitized[i] = "_" /\ sanitized[i + 1] = "_")
       /\ sanitized # <<>> =>
            /\ sanitized[1] \notin {"_", " "}
            /\ sanitized[Len(sanitized)] \notin {"_", " "}
  /\ pc = "sanitized" => resanitized = sanitized

\* C12's case: a name with replaced characters, a run of underscores and
\* padding at both ends was sanitized twice.
C12_Witness ==
  /\ pc = "sanitized"
  /\ filename = <<" ", "_", "a", "/", " ", "/", "b", "_", " ">>
  /\ sanitized = <<"a", "_", " ", "_", "b">>
  /\ resanitized = sanitized

\* C13: at most one input file is open at a time.  Whenever the loop is about
\* to open a file, or is in its except clause, no input is open (the file
\* before was closed, whether it was merged or failed); an open input is the
\* file the loop is at; and no input is open once the loop is over, so none
\* is while the output file is open.
C13_OneInputOpenAtATime ==
  /\ Cardinality(handle) <= 1
  /\ pc \in {"open", "except"} => handle = {}
  /\ handle # {} => pc \in {"read", "add_page"} /\ handle = {files[index].id}
  /\ (pc \in {"save", "write", "stat"} \/ out_open) => handle = {}

\* C13's case: the output file is open after a merge in which one file was
\* merged and another failed after it had been opened.
C13_Witness ==
  /\ out_open
  /\ handle = {}
  /\ Len(files) >= 2
  /\ failed # <<>>
  /\ failed # files
  /\ \E i \in DOMAIN pdf_writer : \E f \in Range(failed) : pdf_writer[i][1] = f.id

\* execute has called merge.
ReachedMerge == pc = "merge" \/ index >= 1

\* The path the document goes to is the path of a discovered file.
OutputIsInput ==
  /\ destination = "src"
  /\ \E f \in Range(pdf_files) : f.sub = <<>> /\ f.name = output_name

\* A discovered file is gone from the source folder: the document took its
\* place.
InputOverwritten ==
  \E f \in Range(pdf_files) : \A i \in DOMAIN fs.tree : fs.tree[i] # f

\* The resolved name was taken and the output was renamed to a name that was
\* taken too.
RenamedOntoExisting ==
  /\ output_name # raw_name
  /\ PathExists(fs0, destination, raw_name)
  /\ PathExists(fs0, destination, output_name)

\* C14 as stated: in a run that reaches the merge, the path the document is
\* written to is not one of the discovered files.
C14_OutputIsNeverAnInput ==
  ReachedMerge => ~OutputIsInput

\* C14 amended: the path the document is written to is a discovered file, and
\* a discovered file is overwritten, only when the resolved name already
\* existed and the timestamped name that replaced it (which is not checked)
\* is itself an existing discovered file; an output that keeps its resolved
\* name is never an input.
C14_OutputIsAnInputOnlyAfterRename ==
  /\ ReachedMerge => (OutputIsInput => RenamedOntoExisting)
  /\ InputOverwritten => (OutputIsInput /\ RenamedOntoExisting)

\* C14's case: the destination is the source folder, docs.pdf, the output of
\* an earlier run, is there and is merged as an input; the document went to a
\* renamed file and every input is still in place.
C14_Witness ==
  /\ OutputWritten
  /\ destination = "src"
  /\ raw_name = <<"d", "o", "c", "s", ".", "p", "d", "f">>
  /\ \E f \in Range(pdf_files) : f.sub = <<>> /\ f.name = raw_name
  /\ output_name # raw_name
  /\ ~OutputIsInput
  /\ ~InputOverwritten
====
